---- MODULE Spec2Model ----
(***************************************************************************)
(* Job orchestration of the test-report agent.                             *)
(*                                                                         *)
(* Part 1 models backend/app/api/endpoints/upload.py: the in-memory job    *)
(* registry (job_logs, job_meta, job_tasks), the three request handlers    *)
(* (upload_file, get_job_status, cancel_job) and the background execution  *)
(* run_local_pipeline_with_timeout / run_local_pipeline, run by the        *)
(* asyncio event loop one task step at a time.                             *)
(*                                                                         *)
(* asyncio.wait_for is modelled in the two ways CPython implements it:     *)
(*   wrapped = TRUE   (CPython <= 3.11) the coroutine run_local_pipeline   *)
(*                    runs in a task of its own ("P") and the outer task   *)
(*                    ("T") sleeps on a waiter future;                     *)
(*   wrapped = FALSE  (CPython >= 3.12) the coroutine is awaited inline    *)
(*                    under asyncio.timeout, so T itself runs the stages.  *)
(* The repository pins no interpreter, so the build is chosen in Init.     *)
(*                                                                         *)
(* ready[j] is the part of the loop's FIFO ready queue that belongs to     *)
(* job j: the steps of T and P that are scheduled, in order.  Handlers and *)
(* external events (a stage's awaited call settling, the wait_for timer    *)
(* firing) may come between any two task steps.                            *)
(***************************************************************************)
EXTENDS Integers, Sequences, FiniteSets, TLC

\* ------------------------------------------------------------------ bounds
MaxJobs == 1
MaxCancelRequests == 2
MaxFacts == 3
MaxClusters == 2
MaxIds == 2
MaxCases == 2

JobIds == 1..MaxJobs

\* --------------------------------------------------------- program constants
JOB_TIMEOUT_SECONDS == 3600

NumStages == 6

\* Python's None, for report_url and error
None == <<>>

Terminal == {"completed", "failed", "cancelled"}

VARIABLES
    job_logs,   \* job id -> sequence of log messages
    job_meta,   \* job id -> [status, report_url, error]
    job_tasks,  \* job id -> the registered asyncio.Task (named by its job id)
    task,       \* T: the task running run_local_pipeline_with_timeout
    inner,      \* P: the coroutine run_local_pipeline (a task of its own iff wrapped)
    ready,      \* job id -> scheduled task steps, FIFO
    wrapped,    \* which asyncio.wait_for the interpreter has
    reply,      \* what the last request handler returned
    defects,    \* aggregator: the number of input facts, named 0..defects-1
    response,   \* aggregator: what the classifier call produces
    returned,   \* aggregator: what cluster_and_summarize_async returned
    ext_cases,  \* extractor: the cases passed in, each with its call's outcome
    ext_tasks,  \* extractor: failed case -> its _extract_single_defect_async task
    ext_log,    \* extractor: the cases logger.error was called for, in order
    ext_calls,  \* extractor: the number of classifier calls made
    ext_returned \* extractor: what extract_defect_facts_concurrently returned

jobVars == <<job_logs, job_meta, job_tasks, task, inner, ready, wrapped, reply>>

aggVars == <<defects, response, returned>>

extVars == <<ext_cases, ext_tasks, ext_log, ext_calls, ext_returned>>

\* the two services the pipeline calls in stages 5 and 6
svcVars == <<aggVars, extVars>>

vars == <<jobVars, aggVars, extVars>>

\* ------------------------------------------------------------- small helpers
Put(f, k, v) == [x \in DOMAIN f \cup {k} |-> IF x = k THEN v ELSE f[x]]

\* variant: job_tasks.clear() instead of job_tasks.pop(job_id, None)
Pop_Clear(f, k) == [x \in {} |-> f[x]]

\* dict.pop(k, None)
Pop(f, k) == [x \in DOMAIN f \ {k} |-> f[x]]

InSeq(s, e) == \E i \in 1..Len(s) : s[i] = e

Enqueue(q, e) == IF InSeq(q, e) THEN q ELSE Append(q, e)

Count(s, e) == Cardinality({i \in 1..Len(s) : s[i] = e})

\* variant: the list is replaced by the new entry
append_log_Overwrite(logs, j, message) == Put(logs, j, <<message>>)

\* append_log: job_logs[job_id].append(message), creating the list if absent
append_log(logs, j, message) ==
    Put(logs, j, Append(IF j \in DOMAIN logs THEN logs[j] ELSE <<>>, message))

\* the f-string of the timeout error: it embeds JOB_TIMEOUT_SECONDS
TimeoutMessage == <<"timeout", JOB_TIMEOUT_SECONDS>>

UserCancelMessage == <<"user_cancelled">>

NoTaskMessage == <<"no_running_task">>

\* str(exc) of the exception a stage raised
ExcMessage == <<"exc">>

ReportUrl(j) == <<"/reports/report_", j, ".html">>

StepMsg == [n \in 1..NumStages |->
              CASE n = 1 -> "step1" [] n = 2 -> "step2" [] n = 3 -> "step3"
                [] n = 4 -> "step4" [] n = 5 -> "step5" [] OTHER -> "step6"]

NoTask == [pc |-> "none", cancel |-> FALSE, users |-> FALSE, expiring |-> FALSE,
           timer |-> "off"]

NoInner == [pc |-> "none", stage |-> 0, res |-> "none", cancel |-> FALSE]

\* ---------------------------------------------------------------------------
\* run_local_pipeline, one task step at a time.  A segment takes the job's meta
\* record m and log l at a resume point and runs to the next await (or to the
\* end); it yields the new meta, log and coroutine position.
\* ---------------------------------------------------------------------------

\* ensure_not_cancelled returns normally (TRUE) unless the status is cancelling
ensure_not_cancelled(m) == m.status # "cancelling"

\* CancelledError leaves run_local_pipeline: "except Exception" does not catch it
Unwound(m, l, n) ==
    [meta |-> m, log |-> l,
     inner |-> [pc |-> "cancelled", stage |-> n, res |-> "none", cancel |-> FALSE]]

\* append_log("step n/6"), then the stage's call is awaited
Awaiting(m, l, n) ==
    [meta |-> m, log |-> Append(l, StepMsg[n]),
     inner |-> [pc |-> "await", stage |-> n, res |-> "none", cancel |-> FALSE]]

\* variant: the status becomes failed but the error is not recorded
PipelineFailed_NoError(m, l, n) ==
    [meta |-> [m EXCEPT !.status = "failed"],
     log |-> Append(l, "pipeline_failed"),
     inner |-> [pc |-> "returned", stage |-> n, res |-> "none", cancel |-> FALSE]]

\* variant: the error is recorded but the status is left as it was
PipelineFailed_KeepsStatus(m, l, n) ==
    [meta |-> [m EXCEPT !.error = ExcMessage],
     log |-> Append(l, "pipeline_failed"),
     inner |-> [pc |-> "returned", stage |-> n, res |-> "none", cancel |-> FALSE]]

\* except Exception as exc: status failed, error str(exc), one log entry
PipelineFailed(m, l, n) ==
    [meta |-> [m EXCEPT !.status = "failed", !.error = ExcMessage],
     log |-> Append(l, "pipeline_failed"),
     inner |-> [pc |-> "returned", stage |-> n, res |-> "none", cancel |-> FALSE]]

\* variant: completion that records no report_url
PipelineCompleted_NoUrl(j, m, l) ==
    [meta |-> [m EXCEPT !.status = "completed"],
     log |-> l \o <<"report_generated", "pipeline_done">>,
     inner |-> [pc |-> "returned", stage |-> NumStages, res |-> "none",
                cancel |-> FALSE]]

\* lines 120-125: the report is rendered, then status, report_url and two entries
PipelineCompleted(j, m, l) ==
    [meta |-> [m EXCEPT !.status = "completed", !.report_url = ReportUrl(j)],
     log |-> l \o <<"report_generated", "pipeline_done">>,
     inner |-> [pc |-> "returned", stage |-> NumStages, res |-> "none",
                cancel |-> FALSE]]

\* the check before stage n and the start of stage n.  Stage 4 (compute_stats)
\* is synchronous: it raises (syncOk = FALSE) or runs on to stage 5.
StageBoundary(m, l, n, syncOk) ==
    IF ~ensure_not_cancelled(m) THEN Unwound(m, l, n)
    ELSE IF n = 4
         THEN IF syncOk THEN Awaiting(m, Append(l, StepMsg[4]), 5)
              ELSE PipelineFailed(m, Append(l, StepMsg[4]), 4)
         ELSE Awaiting(m, l, n)

\* line 77 and the first stage
PipelineStart(m, l) ==
    StageBoundary([m EXCEPT !.status = "running"], l, 1, TRUE)

\* the awaited call of stage n has settled with res; syncOk says whether the
\* synchronous code that follows it (TestCase(**d), compute_stats,
\* render_report) runs without raising
PipelineResume(j, m, l, n, res, syncOk) ==
    IF res = "exc" THEN PipelineFailed(m, l, n)
    ELSE CASE n = 1 -> IF syncOk THEN StageBoundary(m, Append(l, "parsed"), 2, TRUE)
                       ELSE PipelineFailed(m, l, 1)
           [] n = 2 -> StageBoundary(m, l, 3, TRUE)
           [] n = 3 -> StageBoundary(m, Append(l, "flagged"), 4, syncOk)
           [] n = 5 -> StageBoundary(m, Append(l, "extracted"), 6, TRUE)
           [] OTHER -> IF syncOk THEN PipelineCompleted(j, m, l)
                       ELSE PipelineFailed(m, l, NumStages)

\* ---------------------------------------------------------------------------
\* run_local_pipeline_with_timeout: how the outer task ends (lines 63-73)
\* ---------------------------------------------------------------------------

\* finally: job_tasks.pop(job_id, None); the task is done
TaskFinished(j) ==
    /\ job_tasks' = Pop(job_tasks, j)
    /\ task' = [task EXCEPT ![j] = [@ EXCEPT !.pc = "done", !.cancel = FALSE,
                                               !.timer = "off"]]

\* wait_for returned: no except clause runs
ReturnedNormally(j, m, l) ==
    /\ job_meta' = [job_meta EXCEPT ![j] = m]
    /\ job_logs' = [job_logs EXCEPT ![j] = l]
    /\ TaskFinished(j)

\* except asyncio.TimeoutError
OnTimeoutError(j, m, l) ==
    /\ job_meta' = [job_meta EXCEPT
                       ![j] = [m EXCEPT !.status = "failed", !.error = TimeoutMessage]]
    /\ job_logs' = [job_logs EXCEPT ![j] = Append(l, "pipeline_timeout")]
    /\ TaskFinished(j)

\* except asyncio.CancelledError (re-raised after the bookkeeping)
OnCancelledError(j, m, l) ==
    /\ job_meta' = [job_meta EXCEPT
                       ![j] = [m EXCEPT !.status = "cancelled",
                                        !.error = UserCancelMessage]]
    /\ job_logs' = [job_logs EXCEPT ![j] = Append(l, "pipeline_cancelled")]
    /\ TaskFinished(j)

\* ---------------------------------------------------------------------------
\* Request handlers
\* ---------------------------------------------------------------------------

\* POST /upload: a fresh uuid4 job id, the registry entries, the background task
upload_file(j) ==
    /\ j \notin DOMAIN job_meta
    /\ job_logs' = append_log(Put(job_logs, j, <<>>), j, "uploaded")
    /\ job_meta' = Put(job_meta, j,
                       [status |-> "pending", report_url |-> None, error |-> None])
    /\ task' = [task EXCEPT ![j] = [NoTask EXCEPT !.pc = "new"]]
    /\ ready' = [ready EXCEPT ![j] = <<"T">>]
    /\ job_tasks' = Put(job_tasks, j, j)
    /\ reply' = [op |-> "upload", job_id |-> j, message |-> "started"]
    /\ UNCHANGED <<inner, wrapped, svcVars>>

\* variant: job_logs.setdefault(job_id, []) instead of job_logs.get(job_id, [])
get_job_status_Creating(j) ==
    /\ reply' = IF j \notin DOMAIN job_meta
                THEN [op |-> "status", job_id |-> j, status |-> "unknown",
                      logs |-> IF j \in DOMAIN job_logs THEN job_logs[j] ELSE <<>>]
                ELSE [op |-> "status", job_id |-> j, status |-> job_meta[j].status,
                      logs |-> IF j \in DOMAIN job_logs THEN job_logs[j] ELSE <<>>,
                      report_url |-> job_meta[j].report_url,
                      error |-> job_meta[j].error]
    /\ job_logs' = IF j \in DOMAIN job_logs THEN job_logs ELSE Put(job_logs, j, <<>>)
    /\ UNCHANGED <<job_meta, job_tasks, task, inner, ready, wrapped, svcVars>>

\* GET /status/{job_id}
get_job_status(j) ==
    /\ reply' = IF j \notin DOMAIN job_meta
                THEN [op |-> "status", job_id |-> j, status |-> "unknown",
                      logs |-> IF j \in DOMAIN job_logs THEN job_logs[j] ELSE <<>>]
                ELSE [op |-> "status", job_id |-> j, status |-> job_meta[j].status,
                      logs |-> IF j \in DOMAIN job_logs THEN job_logs[j] ELSE <<>>,
                      report_url |-> job_meta[j].report_url,
                      error |-> job_meta[j].error]
    /\ UNCHANGED <<job_logs, job_meta, job_tasks, task, inner, ready, wrapped, svcVars>>

\* variant: only a completed job counts as finished
AlreadyFinished_CompletedOnly(status) == status \in {"completed"}

\* line 161: the statuses cancel_job treats as finished
AlreadyFinished(status) == status \in {"completed", "failed", "cancelled"}

\* variant: the status is set but task.cancel() is not called
TaskCancel_NoSignal(t) == t

\* Task.cancel(): a CancelledError is thrown into T at its next step; a T that
\* sleeps on a pending future is woken
TaskCancel(t) == [t EXCEPT !.cancel = TRUE, !.users = TRUE]

\* DELETE /{job_id}
cancel_job(j) ==
    /\ UNCHANGED svcVars
    /\ IF j \notin DOMAIN job_meta
       THEN /\ reply' = [op |-> "cancel", job_id |-> j, status |-> "unknown",
                         message |-> "Job not found."]
            /\ UNCHANGED <<job_logs, job_meta, job_tasks, task, inner, ready, wrapped>>
       ELSE IF AlreadyFinished(job_meta[j].status)
       THEN /\ reply' = [op |-> "cancel", job_id |-> j, status |-> job_meta[j].status,
                         message |-> "Job already finished."]
            /\ UNCHANGED <<job_logs, job_meta, job_tasks, task, inner, ready, wrapped>>
       ELSE IF j \in DOMAIN job_tasks /\ task[job_tasks[j]].pc # "done"
       THEN /\ Count(job_logs[j], "cancel_requested") < MaxCancelRequests
            /\ job_logs' = append_log(job_logs, j, "cancel_requested")
            /\ task' = [task EXCEPT ![j] = TaskCancel(@)]
            /\ ready' = [ready EXCEPT ![j] = Enqueue(@, "T")]
            /\ job_meta' = [job_meta EXCEPT ![j].status = "cancelling"]
            /\ reply' = [op |-> "cancel", job_id |-> j, status |-> "cancelling",
                         message |-> "Cancellation requested."]
            /\ UNCHANGED <<job_tasks, inner, wrapped>>
       ELSE /\ job_meta' = [job_meta EXCEPT ![j].status = "failed",
                                            ![j].error = NoTaskMessage]
            /\ job_logs' = append_log(job_logs, j, "cancel_failed")
            /\ reply' = [op |-> "cancel", job_id |-> j, status |-> "failed",
                         message |-> "No running task found to cancel."]
            /\ UNCHANGED <<job_tasks, task, inner, ready, wrapped>>

\* ---------------------------------------------------------------------------
\* Event-loop steps of the background execution
\* ---------------------------------------------------------------------------

\* T's first step.  A task cancelled before its first step has CancelledError
\* thrown into the unstarted coroutine: no line of
\* run_local_pipeline_with_timeout runs, neither its except nor its finally.
FirstStep(j, t, m, l, rest) ==
    IF t.cancel
    THEN /\ task' = [task EXCEPT ![j] = [@ EXCEPT !.pc = "done", !.cancel = FALSE]]
         /\ ready' = [ready EXCEPT ![j] = rest]
         /\ UNCHANGED <<job_logs, job_meta, job_tasks, inner>>
    ELSE IF wrapped
    THEN \* wait_for: ensure_future(run_local_pipeline(...)), call_later, await waiter
         /\ task' = [task EXCEPT ![j] = [@ EXCEPT !.pc = "wait", !.timer = "armed"]]
         /\ inner' = [inner EXCEPT ![j] = [NoInner EXCEPT !.pc = "new"]]
         /\ ready' = [ready EXCEPT ![j] = Append(rest, "P")]
         /\ UNCHANGED <<job_logs, job_meta, job_tasks>>
    ELSE \* async with timeout(...): await run_local_pipeline(...)
         LET seg == PipelineStart(m, l) IN
         /\ task' = [task EXCEPT ![j] = [@ EXCEPT !.pc = "wait", !.timer = "armed"]]
         /\ job_meta' = [job_meta EXCEPT ![j] = seg.meta]
         /\ job_logs' = [job_logs EXCEPT ![j] = seg.log]
         /\ inner' = [inner EXCEPT ![j] = seg.inner]
         /\ ready' = [ready EXCEPT ![j] = rest]
         /\ UNCHANGED job_tasks

\* T resumes inside wait_for of CPython <= 3.11
WrappedStep(j, t, m, l, rest) ==
    IF t.pc = "wait"
    THEN IF inner[j].pc = "returned"
         THEN \* "if fut.done(): return fut.result()", also when T was cancelled
              /\ ReturnedNormally(j, m, l)
              /\ ready' = [ready EXCEPT ![j] = rest]
              /\ UNCHANGED inner
         ELSE IF inner[j].pc = "cancelled"
         THEN /\ OnCancelledError(j, m, l)
              /\ ready' = [ready EXCEPT ![j] = rest]
              /\ UNCHANGED inner
         ELSE \* _cancel_and_wait(fut): after a cancel request, or after the timeout
              /\ task' = [task EXCEPT ![j] =
                             [@ EXCEPT !.pc = IF t.cancel THEN "drain_cancel"
                                                          ELSE "drain_timeout",
                                       !.cancel = FALSE]]
              /\ inner' = [inner EXCEPT ![j].cancel = TRUE]
              /\ ready' = [ready EXCEPT ![j] = Enqueue(rest, "P")]
              /\ UNCHANGED <<job_logs, job_meta, job_tasks>>
    ELSE /\ IF t.cancel \/ t.pc = "drain_cancel"
            THEN OnCancelledError(j, m, l)
            ELSE IF inner[j].pc = "cancelled"
                 THEN OnTimeoutError(j, m, l)
                 ELSE ReturnedNormally(j, m, l)
         /\ ready' = [ready EXCEPT ![j] = rest]
         /\ UNCHANGED inner

\* T resumes inside run_local_pipeline, awaited inline (CPython >= 3.12)
InlineStep(j, t, m, l, rest, syncOk) ==
    IF t.cancel
    THEN \* CancelledError at the await; Timeout.__aexit__ turns it into
         \* TimeoutError only if the deadline alone asked for it
         /\ inner' = [inner EXCEPT ![j] = Unwound(m, l, @.stage).inner]
         /\ IF t.expiring /\ ~t.users THEN OnTimeoutError(j, m, l)
                                       ELSE OnCancelledError(j, m, l)
         /\ ready' = [ready EXCEPT ![j] = rest]
    ELSE LET seg == PipelineResume(j, m, l, inner[j].stage, inner[j].res, syncOk) IN
         /\ inner' = [inner EXCEPT ![j] = seg.inner]
         /\ ready' = [ready EXCEPT ![j] = rest]
         /\ IF seg.inner.pc = "await"
            THEN /\ job_meta' = [job_meta EXCEPT ![j] = seg.meta]
                 /\ job_logs' = [job_logs EXCEPT ![j] = seg.log]
                 /\ UNCHANGED <<task, job_tasks>>
            ELSE IF seg.inner.pc = "returned"
                 THEN ReturnedNormally(j, seg.meta, seg.log)
                 ELSE OnCancelledError(j, seg.meta, seg.log)

\* one step of the task created by upload_file
TaskStep(j, syncOk) ==
    /\ ready[j] # <<>>
    /\ Head(ready[j]) = "T"
    /\ LET t == task[j]
           m == job_meta[j]
           l == job_logs[j]
           rest == Tail(ready[j])
       IN  IF t.pc = "new" THEN FirstStep(j, t, m, l, rest)
           ELSE IF wrapped THEN WrappedStep(j, t, m, l, rest)
           ELSE InlineStep(j, t, m, l, rest, syncOk)
    /\ UNCHANGED <<wrapped, reply, svcVars>>

\* one step of the task wait_for made for run_local_pipeline (CPython <= 3.11)
InnerStep(j, syncOk) ==
    /\ ready[j] # <<>>
    /\ Head(ready[j]) = "P"
    /\ LET p == inner[j]
           m == job_meta[j]
           l == job_logs[j]
           rest == Tail(ready[j])
           seg == IF p.cancel THEN Unwound(m, l, p.stage)
                  ELSE IF p.pc = "new" THEN PipelineStart(m, l)
                  ELSE PipelineResume(j, m, l, p.stage, p.res, syncOk)
       IN  /\ job_meta' = [job_meta EXCEPT ![j] = seg.meta]
           /\ job_logs' = [job_logs EXCEPT ![j] = seg.log]
           /\ inner' = [inner EXCEPT ![j] = seg.inner]
           \* the done callback releases the waiter T sleeps on
           /\ ready' = [ready EXCEPT ![j] =
                           IF seg.inner.pc # "await" /\ task[j].pc # "done"
                           THEN Enqueue(rest, "T") ELSE rest]
    /\ UNCHANGED <<job_tasks, task, wrapped, reply, svcVars>>

\* the call a stage awaits settles: it returns (ok) or raises (exc)
StageSettle(j, r) ==
    /\ inner[j].pc = "await"
    /\ inner[j].res = "none"
    /\ ~(IF wrapped THEN inner[j].cancel ELSE task[j].cancel)
    /\ inner' = [inner EXCEPT ![j].res = r]
    /\ ready' = [ready EXCEPT ![j] = Append(@, IF wrapped THEN "P" ELSE "T")]
    /\ UNCHANGED <<job_logs, job_meta, job_tasks, task, wrapped, reply, svcVars>>

\* JOB_TIMEOUT_SECONDS have passed since wait_for started.  CPython <= 3.11
\* releases the waiter, which does nothing once T has been woken; CPython >= 3.12
\* cancels T, also when T's next step is already scheduled.
TimerFire(j) ==
    /\ task[j].timer = "armed"
    /\ task[j].pc = "wait"
    /\ wrapped => ~InSeq(ready[j], "T")
    /\ task' = [task EXCEPT ![j] = [@ EXCEPT !.timer = "fired", !.expiring = TRUE,
                                               !.cancel = (~wrapped \/ @)]]
    /\ ready' = [ready EXCEPT ![j] = Enqueue(@, "T")]
    /\ UNCHANGED <<job_logs, job_meta, job_tasks, inner, wrapped, reply, svcVars>>

\* ---------------------------------------------------------------------------
\* Part 2: backend/app/services/defects/clustering.py,
\* DefectClusterer.cluster_and_summarize_async.
\*
\* The input list holds n facts, named by their index 0..n-1.  The classifier's
\* response is one of
\*   [kind |-> "raise"]   achat_completion raises
\*   [kind |-> "nodict"]  the response is no dict or has no "clusters" key
\*   [kind |-> "dict", clusters |-> <<entry, ...>>]
\* and an entry either is malformed (reading it raises: it is no dict, or its
\* defect_ids cannot be iterated) or carries defect_ids, a list of indices.
\* A returned cluster is [id, kind, defects]: id is the entry's position (0 for a
\* fallback cluster) and defects the list assigned to cluster.defects (line 118).
\* The code assigns no such list to a fallback cluster: its facts are those
\* whose d.cluster it set.  cluster_of is d.cluster of each fact (the last
\* assignment wins).
\* ---------------------------------------------------------------------------
NoResponse == [kind |-> "none", clusters |-> <<>>]

NotReturned == [done |-> FALSE]

\* d.cluster of a fact no cluster was assigned to
NoCluster == 0 - 1

Range(s) == {s[i] : i \in 1..Len(s)}

\* the keys of defect_map: str(i) for i in range(len(defects))
defect_map(n) == 0..(n - 1)

\* the facts of 0..n-1 that satisfy keep, in index order
RECURSIVE FactsWhere(_, _, _)
FactsWhere(i, n, keep) ==
    IF i >= n THEN <<>>
    ELSE (IF i \in keep THEN <<i>> ELSE <<>>) \o FactsWhere(i + 1, n, keep)

\* lines 108-114: the ids that resolve, in the order and number they are listed
\* variant: indices are taken as given, known or not
ResolvedIds_Unchecked(defect_ids, n) == defect_ids

ResolvedIds(defect_ids, n) ==
    LET known(did) == did \in defect_map(n) IN SelectSeq(defect_ids, known)

\* lines 116-119: "if cluster_defects:" keeps the cluster, else it is dropped
\* variant: every proposed cluster is kept
KeepCluster_Always(clusters, cluster) == Append(clusters, cluster)

KeepCluster(clusters, cluster) ==
    IF cluster.defects # <<>> THEN Append(clusters, cluster) ELSE clusters

\* lines 97-119, from entry k on.  st = [clusters, assigned_indices, cluster_of,
\* error]; error says that reading an entry raised.
RECURSIVE ProcessClusters(_, _, _, _)
ProcessClusters(llm_clusters, k, n, st) ==
    IF k > Len(llm_clusters) THEN st
    ELSE IF llm_clusters[k].malformed THEN [st EXCEPT !.error = TRUE]
    ELSE LET cluster_defects == ResolvedIds(llm_clusters[k].defect_ids, n)
             cluster == [id |-> k, kind |-> "proposed", defects |-> cluster_defects]
         IN  ProcessClusters(llm_clusters, k + 1, n,
                 [clusters |-> KeepCluster(st.clusters, cluster),
                  assigned_indices |-> st.assigned_indices \cup Range(cluster_defects),
                  cluster_of |-> [i \in defect_map(n) |->
                                    IF i \in Range(cluster_defects) THEN k
                                    ELSE st.cluster_of[i]],
                  error |-> FALSE])

\* lines 121-138: one fallback cluster for the facts no cluster claimed
\* variant: unassigned facts get no fallback cluster
HandleUnassigned_Skip(n, st) == st

HandleUnassigned(n, st) ==
    LET unassigned_defects == FactsWhere(0, n, defect_map(n) \ st.assigned_indices)
        fallback_cluster == [id |-> 0, kind |-> "isolated", defects |-> <<>>]
    IN  IF unassigned_defects # <<>>
        THEN [st EXCEPT !.clusters = Append(@, fallback_cluster),
                        !.cluster_of = [i \in defect_map(n) |->
                                          IF i \in Range(unassigned_defects) THEN 0
                                          ELSE @[i]]]
        ELSE st

\* lines 143-156: except Exception: one cluster for all facts, appended to the
\* list "clusters" as it stands
FallbackAll(n, st) ==
    LET fallback_cluster == [id |-> 0, kind |-> "all_failed", defects |-> <<>>]
    IN  [st EXCEPT !.clusters = Append(@, fallback_cluster),
                   !.cluster_of = [i \in defect_map(n) |-> 0]]

\* variant: the empty input is not short-circuited
cluster_and_summarize_async_NoGuard(n, resp) ==
    LET st0 == [clusters |-> <<>>, assigned_indices |-> {},
                cluster_of |-> [i \in defect_map(n) |-> NoCluster], error |-> FALSE]
        st1 == IF resp.kind = "dict" THEN ProcessClusters(resp.clusters, 1, n, st0)
               ELSE [st0 EXCEPT !.error = TRUE]
        st2 == IF st1.error THEN FallbackAll(n, st1) ELSE HandleUnassigned(n, st1)
    IN  [done |-> TRUE, clusters |-> st2.clusters, cluster_of |-> st2.cluster_of,
         calls |-> 1, raised |-> FALSE, failed |-> st1.error]

\* what the call returns: done, the cluster list, d.cluster of every fact, the
\* number of classifier calls made, and whether an exception left the function
cluster_and_summarize_async(n, resp) ==
    LET st0 == [clusters |-> <<>>, assigned_indices |-> {},
                cluster_of |-> [i \in defect_map(n) |-> NoCluster], error |-> FALSE]
        st1 == IF resp.kind = "dict" THEN ProcessClusters(resp.clusters, 1, n, st0)
               ELSE [st0 EXCEPT !.error = TRUE]
        st2 == IF st1.error THEN FallbackAll(n, st1) ELSE HandleUnassigned(n, st1)
    IN  IF n = 0
        THEN [done |-> TRUE, clusters |-> <<>>, cluster_of |-> st0.cluster_of,
              calls |-> 0, raised |-> FALSE, failed |-> FALSE]
        ELSE [done |-> TRUE, clusters |-> st2.clusters, cluster_of |-> st2.cluster_of,
              calls |-> 1, raised |-> FALSE, failed |-> st1.error]

\* the classifier outcomes for n facts; index n resolves to no fact.  Within one
\* entry the order of the indices only orders cluster.defects, so the lists
\* are taken in nondecreasing order (repeated indices included).
IdLists(n) ==
    UNION {{ids \in [1..len -> 0..n] : \A a, b \in 1..len : a < b => ids[a] <= ids[b]} :
               len \in 0..MaxIds}

Entries(n) ==
    {[malformed |-> FALSE, defect_ids |-> ids] : ids \in IdLists(n)}
        \cup {[malformed |-> TRUE, defect_ids |-> <<>>]}

Responses(n) ==
    {[kind |-> "raise", clusters |-> <<>>], [kind |-> "nodict", clusters |-> <<>>]}
        \cup {[kind |-> "dict", clusters |-> p] :
                 p \in UNION {[1..len -> Entries(n)] : len \in 0..MaxClusters}}

\* the stage-6 call of run_local_pipeline: cluster_and_summarize_async(linked_defects)
ClusterRun ==
    /\ ~returned.done
    /\ returned' = cluster_and_summarize_async(defects, response)
    /\ UNCHANGED <<defects, response, jobVars, extVars>>

\* ---------------------------------------------------------------------------
\* Part 3: backend/app/services/defects/extractor.py, DefectExtractor.
\*
\* A case is [normalized_result, outcome]: outcome is what the classifier call
\* made for the case does: it returns a dict ("dict"), returns something that is
\* no dict ("nodict"), raises ("raise") or times out ("timeout", an exception as
\* well).  Cases are named by their position in the list.  asyncio.gather runs
\* one task per failed case; the tasks take their steps in any order.
\* ---------------------------------------------------------------------------
Outcomes == {"dict", "nodict", "raise", "timeout"}

\* the cases of the input; no call is made for a case that passed
Cases ==
    {[normalized_result |-> "Pass", outcome |-> "dict"]}
        \cup {[normalized_result |-> r, outcome |-> o] :
                 r \in {"Fail", "Blocked"}, o \in Outcomes}

CaseLists == UNION {[1..len -> Cases] : len \in 0..MaxCases}

\* line 12: the positions of the cases with result Fail or Blocked, in order
failed_cases(cases) ==
    FactsWhere(1, Len(cases) + 1,
               {i \in 1..Len(cases) : cases[i].normalized_result \in {"Fail", "Blocked"}})

\* the DefectAnalysis built from the response for case i
Analysis(i) == <<"analysis", i>>

\* line 18: gather's result list, in the order of failed_cases
results(cases, tasks) ==
    [k \in 1..Len(failed_cases(cases)) |-> tasks[failed_cases(cases)[k]].result]

\* variant: the None results are not filtered out
analyses_Unfiltered(rs) == rs

\* line 21: [r for r in results if r is not None]
analyses(rs) == LET present(r) == r # None IN SelectSeq(rs, present)

\* lines 90-109: what _extract_single_defect_async returns for case i once its
\* call has settled, and the log after it.  A response that is no dict falls
\* through the "if": the function returns None and logs nothing.
SingleDefectResult(i, outcome, log) ==
    IF outcome = "dict" THEN [result |-> Analysis(i), log |-> log]
    ELSE IF outcome = "nodict" THEN [result |-> None, log |-> log]
    ELSE [result |-> None, log |-> Append(log, i)]

ExtIdle ==
    /\ ext_tasks = <<>>
    /\ ext_log = <<>>
    /\ ext_calls = 0
    /\ ext_returned = NotReturned

\* lines 12-18 for the case list cases: one task per failed case; with no
\* failed case gather has nothing to wait for and the function returns
FanOut(cases) ==
    IF failed_cases(cases) = <<>>
    THEN /\ ext_returned' = [done |-> TRUE, analyses |-> <<>>, raised |-> FALSE]
         /\ UNCHANGED ext_tasks
    ELSE /\ ext_tasks' = [i \in Range(failed_cases(cases)) |->
                            [pc |-> "new", result |-> None]]
         /\ UNCHANGED ext_returned

ExtractStarted == ext_returned.done \/ DOMAIN ext_tasks # {}

\* extract_defect_facts_concurrently up to "await asyncio.gather(*tasks)"
ExtractStart ==
    /\ ~ExtractStarted
    /\ FanOut(ext_cases)
    /\ UNCHANGED <<ext_cases, ext_log, ext_calls, jobVars, aggVars>>

\* _extract_single_defect_async for case i up to "await llm_client.achat_completion"
ExtractCall(i) ==
    /\ i \in DOMAIN ext_tasks
    /\ ext_tasks[i].pc = "new"
    /\ ext_tasks' = [ext_tasks EXCEPT ![i].pc = "awaiting"]
    /\ ext_calls' = ext_calls + 1
    /\ UNCHANGED <<ext_cases, ext_log, ext_returned, jobVars, aggVars>>

\* the call for case i settles and _extract_single_defect_async returns
ExtractSettle(i) ==
    /\ i \in DOMAIN ext_tasks
    /\ ext_tasks[i].pc = "awaiting"
    /\ LET r == SingleDefectResult(i, ext_cases[i].outcome, ext_log)
       IN  /\ ext_tasks' = [ext_tasks EXCEPT ![i] = [pc |-> "done", result |-> r.result]]
           /\ ext_log' = r.log
    /\ UNCHANGED <<ext_cases, ext_calls, ext_returned, jobVars, aggVars>>

\* variant: gather returns as soon as one task is done
GatherDone_First(tasks) == \E i \in DOMAIN tasks : tasks[i].pc = "done"

\* gather is done when every task is
GatherDone(tasks) == \A i \in DOMAIN tasks : tasks[i].pc = "done"

\* lines 18-24: gather returns the results, the None results are dropped
ExtractReturn ==
    /\ ~ext_returned.done
    /\ DOMAIN ext_tasks # {}
    /\ GatherDone(ext_tasks)
    /\ ext_returned' = [done |-> TRUE,
                        analyses |-> analyses(results(ext_cases, ext_tasks)),
                        raised |-> FALSE]
    /\ UNCHANGED <<ext_cases, ext_tasks, ext_log, ext_calls, jobVars, aggVars>>

ExtractNext ==
    \/ ExtractStart
    \/ \E i \in 1..MaxCases : ExtractCall(i)
    \/ \E i \in 1..MaxCases : ExtractSettle(i)
    \/ ExtractReturn

\* ---------------------------------------------------------------------------
\* Stage 5 of run_local_pipeline with its fan-out: the call the pipeline awaits
\* at line 102 is extract_defect_facts_concurrently, which settles when gather
\* does.
\* ---------------------------------------------------------------------------

\* the pipeline of job j waits at line 102 and has not been cancelled
Stage5Awaiting(j) ==
    /\ inner[j].pc = "await"
    /\ inner[j].stage = 5
    /\ inner[j].res = "none"
    /\ ~(IF wrapped THEN inner[j].cancel ELSE task[j].cancel)

\* line 102 starts the extractor on the cases stage 3 returned
StageFanOut(j) ==
    /\ Stage5Awaiting(j)
    /\ ~ExtractStarted
    /\ \E cs \in CaseLists : ext_cases' = cs /\ FanOut(cs)
    /\ UNCHANGED <<ext_log, ext_calls, jobVars, aggVars>>

StageExtractCall(j, i) == Stage5Awaiting(j) /\ ExtractCall(i)

StageExtractSettle(j, i) == Stage5Awaiting(j) /\ ExtractSettle(i)

\* the awaited call of a stage settles; that of stage 5 returns when the
\* extractor has nothing left to wait for, and raises only before the fan-out
\* (line 12)
StagesSettle(j, r) ==
    /\ StageSettle(j, r)
    /\ inner[j].stage = 5
          => IF r = "ok"
             THEN ext_returned.done \/ (DOMAIN ext_tasks # {} /\ GatherDone(ext_tasks))
             ELSE ~ExtractStarted

\* ---------------------------------------------------------------------------
Init ==
    /\ job_logs = <<>>
    /\ job_meta = <<>>
    /\ job_tasks = <<>>
    /\ task = [j \in JobIds |-> NoTask]
    /\ inner = [j \in JobIds |-> NoInner]
    /\ ready = [j \in JobIds |-> <<>>]
    /\ wrapped \in BOOLEAN
    /\ reply = [op |-> "none"]
    /\ defects = 0
    /\ response = NoResponse
    /\ returned = NotReturned
    /\ ext_cases = <<>>
    /\ ExtIdle

Next ==
    \/ \E j \in JobIds : upload_file(j)
    \/ \E j \in JobIds : get_job_status(j)
    \/ \E j \in JobIds : cancel_job(j)
    \/ \E j \in JobIds, syncOk \in BOOLEAN : TaskStep(j, syncOk)
    \/ \E j \in JobIds, syncOk \in BOOLEAN : InnerStep(j, syncOk)
    \/ \E j \in JobIds, r \in {"ok", "exc"} : StageSettle(j, r)
    \/ \E j \in JobIds : TimerFire(j)

Spec == Init /\ [][Next]_vars

\* the event loop runs every scheduled task step
FairSpec ==
    /\ Spec
    /\ \A j \in JobIds : WF_vars(\E syncOk \in BOOLEAN : TaskStep(j, syncOk))
    /\ \A j \in JobIds : WF_vars(\E syncOk \in BOOLEAN : InnerStep(j, syncOk))

\* the event loop runs every scheduled step, and the deadline of a running
\* wait_for elapses
FairSpecDeadline ==
    /\ FairSpec
    /\ \A j \in JobIds : WF_vars(TimerFire(j))

\* one job, with the fan-out of its stage 5
StagesJob == CHOOSE j \in JobIds : \A k \in JobIds : j <= k

StagesNext ==
    \/ upload_file(StagesJob)
    \/ get_job_status(StagesJob)
    \/ cancel_job(StagesJob)
    \/ \E syncOk \in BOOLEAN : TaskStep(StagesJob, syncOk)
    \/ \E syncOk \in BOOLEAN : InnerStep(StagesJob, syncOk)
    \/ \E r \in {"ok", "exc"} : StagesSettle(StagesJob, r)
    \/ TimerFire(StagesJob)
    \/ StageFanOut(StagesJob)
    \/ \E i \in 1..MaxCases : StageExtractCall(StagesJob, i)
    \/ \E i \in 1..MaxCases : StageExtractSettle(StagesJob, i)

SpecStages == Init /\ [][StagesNext]_vars

\* several jobs in the registries at once: the handlers and the event-loop
\* steps of every job interleave
TwoJobs == JobIds \cup {MaxJobs + 1}

InitTwoJobs ==
    /\ job_logs = <<>>
    /\ job_meta = <<>>
    /\ job_tasks = <<>>
    /\ task = [j \in TwoJobs |-> NoTask]
    /\ inner = [j \in TwoJobs |-> NoInner]
    /\ ready = [j \in TwoJobs |-> <<>>]
    /\ wrapped \in BOOLEAN
    /\ reply = [op |-> "none"]
    /\ defects = 0
    /\ response = NoResponse
    /\ returned = NotReturned
    /\ ext_cases = <<>>
    /\ ExtIdle

NextTwoJobs ==
    \/ \E j \in TwoJobs : upload_file(j)
    \/ \E j \in TwoJobs : get_job_status(j)
    \/ \E j \in TwoJobs : cancel_job(j)
    \/ \E j \in TwoJobs, syncOk \in BOOLEAN : TaskStep(j, syncOk)
    \/ \E j \in TwoJobs, syncOk \in BOOLEAN : InnerStep(j, syncOk)
    \/ \E j \in TwoJobs, r \in {"ok", "exc"} : StageSettle(j, r)
    \/ \E j \in TwoJobs : TimerFire(j)

SpecTwoJobs == InitTwoJobs /\ [][NextTwoJobs]_vars

\* the aggregator alone, on every input within the bounds
InitCluster ==
    /\ job_logs = <<>>
    /\ job_meta = <<>>
    /\ job_tasks = <<>>
    /\ task = [j \in JobIds |-> NoTask]
    /\ inner = [j \in JobIds |-> NoInner]
    /\ ready = [j \in JobIds |-> <<>>]
    /\ wrapped = FALSE
    /\ reply = [op |-> "none"]
    /\ defects \in 0..MaxFacts
    /\ response \in Responses(defects)
    /\ returned = NotReturned
    /\ ext_cases = <<>>
    /\ ExtIdle

SpecCluster == InitCluster /\ [][ClusterRun]_vars

\* the extractor alone, on every case list within the bounds
InitExtract ==
    /\ job_logs = <<>>
    /\ job_meta = <<>>
    /\ job_tasks = <<>>
    /\ task = [j \in JobIds |-> NoTask]
    /\ inner = [j \in JobIds |-> NoInner]
    /\ ready = [j \in JobIds |-> <<>>]
    /\ wrapped = FALSE
    /\ reply = [op |-> "none"]
    /\ defects = 0
    /\ response = NoResponse
    /\ returned = NotReturned
    /\ ext_cases \in CaseLists
    /\ ExtIdle

SpecExtract == InitExtract /\ [][ExtractNext]_vars

\* both services, each on every input within the bounds while the other gets
\* the empty list
InitServices ==
    /\ job_logs = <<>>
    /\ job_meta = <<>>
    /\ job_tasks = <<>>
    /\ task = [j \in JobIds |-> NoTask]
    /\ inner = [j \in JobIds |-> NoInner]
    /\ ready = [j \in JobIds |-> <<>>]
    /\ wrapped = FALSE
    /\ reply = [op |-> "none"]
    /\ returned = NotReturned
    /\ ExtIdle
    /\ \/ /\ defects \in 0..MaxFacts
          /\ response \in Responses(defects)
          /\ ext_cases = <<>>
       \/ /\ defects = 0
          /\ response = NoResponse
          /\ ext_cases \in CaseLists

SpecServices == InitServices /\ [][ClusterRun \/ ExtractNext]_vars

\* ===========================================================================
\* Properties
\* ===========================================================================
Status(j) == job_meta[j].status

Known(j) == j \in DOMAIN job_meta

\* the transition graph of the job state machine
AllowedEdges ==
    {<<"pending", "running">>, <<"running", "completed">>, <<"running", "failed">>,
     <<"running", "cancelling">>, <<"cancelling", "cancelled">>}

\* C1: every change of a job's status follows an edge of the transition graph
\* pending->running, running->completed, running->failed, running->cancelling,
\* cancelling->cancelled
C1_StatusFollowsGraph ==
    [][\A j \in JobIds :
          (Known(j) /\ job_meta'[j].status # job_meta[j].status)
              => <<job_meta[j].status, job_meta'[j].status>> \in AllowedEdges]_vars

\* --------------------------------------------------------------- aggregator
Facts == 0..(defects - 1)

Groups == returned.clusters

\* the member list of a returned group: the list assigned to a proposed
\* cluster, the facts linked to a fallback cluster
Members(c) ==
    IF c.kind = "proposed" THEN c.defects
    ELSE FactsWhere(0, defects, {i \in Facts : returned.cluster_of[i] = c.id})

Malformed(resp) == \E k \in 1..Len(resp.clusters) : resp.clusters[k].malformed

\* the facts some entry of the proposal references
Claimed(resp) ==
    {i \in Facts : \E k \in 1..Len(resp.clusters) :
                      i \in Range(resp.clusters[k].defect_ids)}

\* C2: after the call returns for a non-empty input, every input fact is
\* assigned to a group that is in the returned list
C2_EveryFactAssigned ==
    (returned.done /\ defects > 0)
        => \A i \in Facts :
              \E k \in 1..Len(Groups) :
                  /\ Groups[k].id = returned.cluster_of[i]
                  /\ i \in Range(Members(Groups[k]))

C2_Witness ==
    /\ returned.done
    /\ defects >= 2
    /\ \E k \in 1..Len(Groups) : Groups[k].kind = "proposed"
    /\ \E k \in 1..Len(Groups) : Groups[k].kind = "isolated"

RECURSIVE TotalMemberships(_, _)
TotalMemberships(gs, k) ==
    IF k > Len(gs) THEN 0 ELSE Len(Members(gs[k])) + TotalMemberships(gs, k + 1)

\* C3: the member lists of the returned groups are pairwise disjoint, hold no
\* fact twice, and together have as many entries as there are input facts
C3_MembershipsDisjoint ==
    returned.done =>
        /\ \A k \in 1..Len(Groups) :
              Cardinality(Range(Members(Groups[k]))) = Len(Members(Groups[k]))
        /\ \A k1, k2 \in 1..Len(Groups) :
              k1 # k2 => Range(Members(Groups[k1])) \cap Range(Members(Groups[k2])) = {}
        /\ TotalMemberships(Groups, 1) = defects

\* the classifier call fails outright: it raises, the response has no
\* "clusters", or reading an entry raises part-way through
FailsOutright(resp) == resp.kind \in {"raise", "nodict"} \/ Malformed(resp)

\* C4: when the classifier call fails outright for a non-empty input, the call
\* does not raise and returns exactly one group, the total-failure fallback,
\* holding all input facts
C4_TotalFailureOneGroup ==
    (returned.done /\ defects > 0 /\ FailsOutright(response))
        => /\ ~returned.raised
           /\ Len(Groups) = 1
           /\ Groups[1].kind = "all_failed"
           /\ Range(Members(Groups[1])) = Facts

\* the entries of the proposal that reference at least one input fact
Resolving(resp) ==
    {k \in 1..Len(resp.clusters) : Range(resp.clusters[k].defect_ids) \cap Facts # {}}

\* C5: when the proposal is processed without error, indices that resolve to no
\* input fact are ignored, and the returned list holds exactly one fallback group
\* with exactly the unclaimed facts if there are any, and none otherwise
C5_PartialFallback ==
    (returned.done /\ defects > 0 /\ response.kind = "dict" /\ ~Malformed(response))
        => LET unclaimed == Facts \ Claimed(response)
               fallbacks == {k \in 1..Len(Groups) : Groups[k].kind # "proposed"}
               proposed == {k \in 1..Len(Groups) : Groups[k].kind = "proposed"}
           IN  /\ {Groups[k].id : k \in proposed} = Resolving(response)
               /\ \A k \in proposed :
                     Range(Groups[k].defects)
                         = Range(response.clusters[Groups[k].id].defect_ids) \cap Facts
               /\ IF unclaimed = {} THEN fallbacks = {}
                  ELSE /\ Cardinality(fallbacks) = 1
                       /\ \A k \in fallbacks :
                             /\ Groups[k].kind = "isolated"
                             /\ Range(Members(Groups[k])) = unclaimed
                             /\ Len(Members(Groups[k])) = Cardinality(unclaimed)
               /\ Len(Groups) = Cardinality(Resolving(response))
                                   + (IF unclaimed = {} THEN 0 ELSE 1)

\* 3 facts, 2 proposed groups covering 2 of them and naming an unknown index:
\* 3 groups are returned
C5_Witness ==
    /\ returned.done
    /\ defects = 3
    /\ response.kind = "dict"
    /\ ~Malformed(response)
    /\ Len(response.clusters) = 2
    /\ Cardinality(Resolving(response)) = 2
    /\ Cardinality(Claimed(response)) = 2
    /\ \E k \in 1..2 : defects \in Range(response.clusters[k].defect_ids)
    /\ Len(Groups) = 3

\* C6: no returned group has an empty member list, and a proposed group none
\* of whose indices resolves to an input fact is not in the output
C6_NoEmptyGroup ==
    returned.done =>
        /\ \A k \in 1..Len(Groups) : Members(Groups[k]) # <<>>
        /\ \A e \in 1..Len(response.clusters) :
              (~response.clusters[e].malformed
                  /\ Range(response.clusters[e].defect_ids) \cap Facts = {})
                  => ~\E k \in 1..Len(Groups) :
                         Groups[k].kind = "proposed" /\ Groups[k].id = e

\* a proposed group that names only an unknown index was dropped
C6_Witness ==
    /\ returned.done
    /\ defects > 0
    /\ response.kind = "dict"
    /\ ~Malformed(response)
    /\ \E e \in 1..Len(response.clusters) :
          /\ response.clusters[e].defect_ids # <<>>
          /\ Range(response.clusters[e].defect_ids) \cap Facts = {}
    /\ Len(Groups) >= 1

\* ---------------------------------------------------------------- lifecycle
\* the first cancel request reached the job after its pipeline had started,
\* that is while its status was running
RunningWhenCancelRequested(j) ==
    /\ Known(j)
    /\ \E i \in 1..Len(job_logs[j]) :
          /\ job_logs[j][i] = "cancel_requested"
          /\ \A k \in 1..(i - 1) : job_logs[j][k] # "cancel_requested"
          /\ \E k \in 1..(i - 1) : job_logs[j][k] = StepMsg[1]

\* C7: after cancel_job on a running job (which sets the status to
\* cancelling), the job's task ends with the status cancelled and the
\* user-cancellation message as the error
C7_CancelRunningEndsCancelled ==
    \A j \in JobIds :
        (RunningWhenCancelRequested(j) /\ task[j].pc = "done")
            => /\ Status(j) = "cancelled"
               /\ job_meta[j].error = UserCancelMessage

\* C8: cancel_job on a completed, failed or cancelled job reports "Job already
\* finished." and leaves the job's status, log, report_url, error and
\* registered task unchanged
C8_CancelTerminalNoOp ==
    [][\A j \in JobIds :
          (Known(j) /\ Status(j) \in Terminal /\ cancel_job(j))
              => /\ reply'.message = "Job already finished."
                 /\ job_meta'[j] = job_meta[j]
                 /\ job_logs'[j] = job_logs[j]
                 /\ job_tasks' = job_tasks
                 /\ task'[j] = task[j]
                 /\ inner'[j] = inner[j]]_vars

\* a cancel request on a finished job has just been answered
C8_Witness ==
    /\ reply.op = "cancel"
    /\ reply.message = "Job already finished."
    /\ Known(reply.job_id)
    /\ Status(reply.job_id) \in Terminal

NoCancelRequested(j) ==
    ~InSeq(job_logs[j], "cancel_requested") /\ ~InSeq(job_logs[j], "cancel_failed")

\* C9: once the deadline has elapsed on a job that had not finished and that
\* nobody asked to cancel, the job never becomes completed or cancelled, its
\* report_url stays unset, and when its task ends the status is failed with
\* the message that carries JOB_TIMEOUT_SECONDS
C9_DeadlineFailsJob ==
    \A j \in JobIds :
        (Known(j) /\ task[j].expiring /\ NoCancelRequested(j))
            => /\ Status(j) \notin {"completed", "cancelled"}
               /\ job_meta[j].report_url = None
               /\ task[j].pc = "done"
                     => /\ Status(j) = "failed"
                        /\ job_meta[j].error = TimeoutMessage

\* C10: a job has a report_url exactly when its status is completed
C10_ReportUrlIffCompleted ==
    \A j \in JobIds :
        Known(j) => ((job_meta[j].report_url # None) <=> (Status(j) = "completed"))

C10_Witness ==
    \E j \in JobIds :
        /\ Known(j)
        /\ Status(j) = "completed"
        /\ job_meta[j].report_url = ReportUrl(j)

\* C11: a job has an error only when its status is failed or cancelled
C11_ErrorOnlyFailedOrCancelled ==
    \A j \in JobIds :
        Known(j) => (job_meta[j].error # None => Status(j) \in {"failed", "cancelled"})

\* a stage error, a timeout, a cancellation and a failed cancel request each
\* leave their own error
C11_Witness ==
    \E j \in JobIds :
        /\ Known(j)
        /\ Status(j) = "failed"
        /\ job_meta[j].error = ExcMessage

CancelRequested(j) == Known(j) /\ InSeq(job_logs[j], "cancel_requested")

\* C12: once cancellation has been requested for a job, no further pipeline
\* stage starts (no stage entry is added to its log), its status never becomes
\* completed and its report_url stays unset
C12_NoStageAfterCancel ==
    [][\A j \in JobIds :
          CancelRequested(j)
              => /\ \A n \in 1..NumStages :
                       Count(job_logs'[j], StepMsg[n]) = Count(job_logs[j], StepMsg[n])
                 /\ job_meta'[j].status # "completed"
                 /\ job_meta'[j].report_url = None]_vars

IsPrefix(s, t) == Len(s) <= Len(t) /\ \A i \in 1..Len(s) : s[i] = t[i]

\* C13: every step leaves each job's previous log as a prefix of its log, and
\* a status query returns the entries appended so far
C13_LogAppendOnly ==
    [][/\ \A j \in DOMAIN job_logs :
             j \in DOMAIN job_logs' /\ IsPrefix(job_logs[j], job_logs'[j])
       /\ \A j \in JobIds :
             (Known(j) /\ get_job_status(j)) => reply'.logs = job_logs[j]]_vars

\* a status query answered while the execution was still writing: the log
\* has grown past the entries the reply holds
C13_Witness ==
    /\ reply.op = "status"
    /\ Known(reply.job_id)
    /\ Status(reply.job_id) = "running"
    /\ reply.logs # <<>>
    /\ IsPrefix(reply.logs, job_logs[reply.job_id])
    /\ Len(reply.logs) < Len(job_logs[reply.job_id])

\* ---------------------------------------------------------------- extractor
\* the failed cases of the input whose classifier call fails
FailingCalls ==
    {i \in Range(failed_cases(ext_cases)) : ext_cases[i].outcome # "dict"}

\* C14: with N failed cases of which K have a failing call,
\* extract_defect_facts_concurrently does not raise and returns N-K results,
\* the analyses of the successful cases in input order; and every task that has
\* settled holds the result of its own call, whatever its siblings did
C14_ReturnsSuccessfulOnly ==
    /\ ext_returned.done
          => /\ ~ext_returned.raised
             /\ Len(ext_returned.analyses)
                   = Len(failed_cases(ext_cases)) - Cardinality(FailingCalls)
             /\ ext_returned.analyses
                   = [k \in 1..Len(ext_returned.analyses) |->
                        Analysis(FactsWhere(1, Len(ext_cases) + 1,
                                            Range(failed_cases(ext_cases)) \ FailingCalls)[k])]
    /\ \A i \in DOMAIN ext_tasks :
          ext_tasks[i].pc = "done"
              => ext_tasks[i].result
                    = (IF ext_cases[i].outcome = "dict" THEN Analysis(i) ELSE None)

\* two failed cases, one call fails and the other succeeds: one result
C14_Witness ==
    /\ ext_returned.done
    /\ Len(failed_cases(ext_cases)) = 2
    /\ Cardinality(FailingCalls) = 1
    /\ Len(ext_returned.analyses) = 1

\* C15: when extract_defect_facts_concurrently has returned, an error was
\* logged for every failed case whose classifier call failed, whether it
\* raised, timed out or returned a response that is no dict
C15_EveryFailureLogged ==
    ext_returned.done => \A i \in FailingCalls : InSeq(ext_log, i)

\* C20: with no input fact cluster_and_summarize_async returns the empty list
\* without calling the classifier, and with no Fail or Blocked case
\* extract_defect_facts_concurrently returns the empty list without calling it
C20_EmptyInputsShortCircuit ==
    /\ (returned.done /\ defects = 0)
          => (returned.clusters = <<>> /\ returned.calls = 0 /\ ~returned.raised)
    /\ (ext_returned.done /\ failed_cases(ext_cases) = <<>>)
          => (ext_returned.analyses = <<>> /\ ext_calls = 0 /\ ~ext_returned.raised)

\* both have returned: the aggregator for no fact, the extractor for a
\* non-empty case list without a failed case
C20_Witness ==
    /\ returned.done
    /\ defects = 0
    /\ returned.clusters = <<>>
    /\ ext_returned.done
    /\ ext_cases # <<>>
    /\ failed_cases(ext_cases) = <<>>

\* ------------------------------------------------------------ stage order
\* the stage entries of a log, in the order they were appended
StageEntries(l) == LET isStage(e) == e \in Range(StepMsg) IN SelectSeq(l, isStage)

\* C16: the stages of a job start in the order 1..6, each once; while the call
\* of stage n is awaited no later stage has started; and stage 6 has started
\* only if every call the extractor fanned out in stage 5 has settled
C16_StagesInOrder ==
    \A j \in JobIds :
        Known(j)
            => /\ \A k \in 1..Len(StageEntries(job_logs[j])) :
                     k <= NumStages /\ StageEntries(job_logs[j])[k] = StepMsg[k]
               /\ inner[j].pc = "await"
                     => Len(StageEntries(job_logs[j])) = inner[j].stage
               /\ InSeq(job_logs[j], StepMsg[NumStages])
                     => /\ ExtractStarted
                        /\ GatherDone(ext_tasks)

\* stage 6 has started after a fan-out of two calls, one of which failed
C16_Witness ==
    \E j \in JobIds :
        /\ Known(j)
        /\ InSeq(job_logs[j], StepMsg[NumStages])
        /\ Len(failed_cases(ext_cases)) = 2
        /\ \E i \in DOMAIN ext_tasks : ext_cases[i].outcome # "dict"
        /\ \E i \in DOMAIN ext_tasks : ext_cases[i].outcome = "dict"

\* ------------------------------------------------------------ stage errors
\* the step is one of job j's execution, taken with the given outcome of the
\* synchronous code
ExecutionStep(j, syncOk) == TaskStep(j, syncOk) \/ InnerStep(j, syncOk)

\* the next step of job j's execution resumes run_local_pipeline, not
\* cancelled, at an awaited call that has settled
PipelineResumes(j) ==
    /\ inner[j].pc = "await"
    /\ inner[j].res # "none"
    /\ ready[j] # <<>>
    /\ Head(ready[j]) = (IF wrapped THEN "P" ELSE "T")
    /\ ~(IF wrapped THEN inner[j].cancel ELSE task[j].cancel)

\* in this step an error is raised inside a stage of job j: the awaited call
\* raised, or the synchronous code that follows it did
StageErrorRaised(j) ==
    /\ PipelineResumes(j)
    /\ \/ inner[j].res = "exc" /\ \E syncOk \in BOOLEAN : ExecutionStep(j, syncOk)
       \/ ExecutionStep(j, FALSE) /\ ~ExecutionStep(j, TRUE)

\* C17: a step in which a stage of a job raises an error leaves the job
\* failed, with the error's description as error and a failure entry as the
\* last log entry, and run_local_pipeline returns instead of raising
C17_StageErrorFailsJob ==
    [][\A j \in JobIds :
          (Known(j) /\ StageErrorRaised(j))
              => /\ job_meta'[j].status = "failed"
                 /\ job_meta'[j].error = ExcMessage
                 /\ job_meta'[j].report_url = None
                 /\ IsPrefix(job_logs[j], job_logs'[j])
                 /\ Len(job_logs'[j]) > Len(job_logs[j])
                 /\ job_logs'[j][Len(job_logs'[j])] = "pipeline_failed"
                 /\ inner'[j].pc = "returned"]_vars

\* compute_stats raised in stage 4: the job failed before stage 5
C17_Witness ==
    \E j \in JobIds :
        /\ Known(j)
        /\ Status(j) = "failed"
        /\ job_meta[j].error = ExcMessage
        /\ inner[j].pc = "returned"
        /\ inner[j].stage = 4
        /\ InSeq(job_logs[j], StepMsg[4])
        /\ ~InSeq(job_logs[j], StepMsg[5])
        /\ job_logs[j][Len(job_logs[j])] = "pipeline_failed"

\* ------------------------------------------------------------- unknown ids
\* the step is answered by a handler: the reply changes to one of kind op for
\* job j
Answered(op, j) == reply' # reply /\ reply'.op = op /\ reply'.job_id = j

RegistryUnchanged ==
    /\ job_meta' = job_meta
    /\ job_logs' = job_logs
    /\ job_tasks' = job_tasks
    /\ task' = task
    /\ inner' = inner
    /\ ready' = ready

\* C19: a status query for an unknown id answers "unknown" with no log, a
\* cancel request for an unknown id answers "unknown" too, neither creates a
\* record, a log or a task for the id, and a status query for a known job
\* changes nothing
C19_UnknownIdAndReadOnlyQuery ==
    [][\A j \in JobIds :
          /\ (Answered("status", j) /\ ~Known(j))
                => (reply'.status = "unknown" /\ reply'.logs = <<>> /\ RegistryUnchanged)
          /\ (Answered("cancel", j) /\ ~Known(j))
                => (reply'.status = "unknown" /\ RegistryUnchanged)
          /\ (Answered("status", j) /\ Known(j))
                => (reply'.status = Status(j) /\ RegistryUnchanged)]_vars

\* an id that was never submitted has been queried, and nothing exists for it
C19_Witness ==
    /\ reply.op = "status"
    /\ reply.status = "unknown"
    /\ reply.job_id \notin DOMAIN job_meta
    /\ reply.job_id \notin DOMAIN job_logs
    /\ reply.job_id \notin DOMAIN job_tasks

\* ------------------------------------------------------------ job isolation
\* everything the program holds for job b: its record, its log, its registered
\* execution and the state of that execution
JobView(b) ==
    [meta |-> IF b \in DOMAIN job_meta THEN <<job_meta[b]>> ELSE <<>>,
     logs |-> IF b \in DOMAIN job_logs THEN <<job_logs[b]>> ELSE <<>>,
     registered |-> IF b \in DOMAIN job_tasks THEN <<job_tasks[b]>> ELSE <<>>,
     task |-> task[b],
     inner |-> inner[b],
     ready |-> ready[b]]

\* the step is an operation on job a: it answers a request for a, or it
\* changes what the program holds for a (every step of SpecTwoJobs that is not
\* a repeated request with the same answer is one of the two, for the job whose
\* handler or execution step it is)
OperationOn(a) ==
    \/ reply' # reply /\ reply'.job_id = a
    \/ JobView(a)' # JobView(a)

\* C18: an operation on job a (a step of its execution, a failure of its
\* stage, its deadline, a cancel request or a status query for it) leaves the
\* status, log, result reference, error and registered execution of every
\* other job b of the registry unchanged
C18_JobsIsolated ==
    [][\A a \in TwoJobs : \A b \in TwoJobs \ {a} :
          (Known(b) /\ OperationOn(a)) => JobView(b)' = JobView(b)]_vars

\* one job was cancelled and ended cancelled or failed while another one, never
\* cancelled, completed with its report
C18_Witness ==
    \E a \in TwoJobs : \E b \in TwoJobs \ {a} :
        /\ Known(a) /\ Known(b)
        /\ InSeq(job_logs[a], "cancel_requested")
        /\ Status(a) \in {"cancelled", "failed"}
        /\ ~InSeq(job_logs[b], "cancel_requested")
        /\ Status(b) = "completed"
        /\ job_meta[b].report_url # None
        /\ b \notin DOMAIN job_tasks


\* ------------------------------------------------- cancel on a live job
NonTerminal(j) == Known(j) /\ Status(j) \notin Terminal

\* "task and not task.done()" of line 168
LiveExecution(j) == j \in DOMAIN job_tasks /\ task[job_tasks[j]].pc # "done"

\* C21: a cancel request for a job in a non-terminal status either finds a
\* registered execution that is not done, and then the status becomes
\* cancelling, the execution is signalled to stop and one log entry is
\* appended; or it finds none, and then the status becomes failed with the
\* descriptive error and one log entry.  A repeated request on a cancelling job
\* with a live execution leaves the status cancelling.
C21_CancelNonTerminalTwoOutcomes ==
    [][\A j \in JobIds :
          (NonTerminal(j) /\ cancel_job(j))
              => IF LiveExecution(j)
                 THEN /\ job_meta'[j] = [job_meta[j] EXCEPT !.status = "cancelling"]
                      /\ task'[j].cancel
                      /\ InSeq(ready'[j], "T")
                      /\ job_logs'[j] = Append(job_logs[j], "cancel_requested")
                      /\ LiveExecution(j)'
                 ELSE /\ job_meta'[j] = [job_meta[j] EXCEPT !.status = "failed",
                                                            !.error = NoTaskMessage]
                      /\ job_logs'[j] = Append(job_logs[j], "cancel_failed")
                      /\ task'[j] = task[j]
                      /\ ready'[j] = ready[j]]_vars

\* a job was cancelled twice while its execution was live (the second request
\* left it cancelling), and a later request found no live execution
C21_Witness ==
    \E j \in JobIds :
        /\ Known(j)
        /\ Count(job_logs[j], "cancel_requested") = 2
        /\ job_logs[j][Len(job_logs[j])] = "cancel_failed"
        /\ Status(j) = "failed"
        /\ job_meta[j].error = NoTaskMessage

\* ------------------------------------------------------ terminal states
\* C22: once a job's status is completed, failed or cancelled, no later step
\* (of its execution, its deadline, a cancel request, a status query) changes
\* its status, its report_url or its error
C22_TerminalAbsorbing ==
    [][\A j \in JobIds :
          (Known(j) /\ Status(j) \in Terminal) => job_meta'[j] = job_meta[j]]_vars

\* the pipeline task put the job in a terminal state while the outer task,
\* cancelled by a request, still had a step to run, and that step has run
C22_Witness ==
    \E j \in JobIds :
        /\ Known(j)
        /\ wrapped
        /\ Status(j) \in {"completed", "failed"}
        /\ InSeq(job_logs[j], "cancel_requested")
        /\ inner[j].pc = "returned"
        /\ task[j].pc = "done"

\* C23: every job whose status is pending, running or cancelling has a
\* registered execution in job_tasks that is not done (so the branch of
\* cancel_job that finds no running task is never taken)
C23_ActiveJobHasLiveExecution ==
    \A j \in JobIds : NonTerminal(j) => LiveExecution(j)

\* C24: every submitted job eventually reaches a terminal status
C24_EventuallyTerminal ==
    \A j \in JobIds : Known(j) ~> (Known(j) /\ Status(j) \in Terminal)

====
